---------------------------- MODULE Spec2Model ----------------------------
(***************************************************************************)
(* Model of src/app.py: a DHT11 temperature/humidity monitor.              *)
(*                                                                         *)
(* Threads of the program:                                                 *)
(*   "sensor"  : sensor_loop (daemon thread), calls add_to_buffer and, at  *)
(*               the end of a window, save_averaged_data;                  *)
(*   "janitor" : cleanup_thread (daemon thread), calls clean_old_data;     *)
(*   "main"    : the main thread; serves HTTP until a signal runs cleanup, *)
(*               whose sys.exit then runs cleanup again through atexit;    *)
(*   "http"    : a Flask worker running the clear_history handler.         *)
(* The read-only handlers (get_sensor, load_history, history_stats) are    *)
(* single steps that leave their response in resp.                         *)
(*                                                                         *)
(* The code takes no lock.  Each action below is one group of adjacent     *)
(* statements of the source; the scheduler variable mode decides whether   *)
(* groups of different threads may interleave ("conc", what the program    *)
(* does) or whether every operation runs to completion before another      *)
(* starts ("serial", the one-at-a-time contract of the operations).        *)
(*                                                                         *)
(* Units: time in seconds since the start of year 0, every year 365 days   *)
(* long; temperature and humidity in tenths of a unit.                     *)
(***************************************************************************)
EXTENDS Integers, Sequences, FiniteSets, TLC

(* ------------------------- program constants ------------------------- *)

HISTORICAL_INTERVAL ==
  300

MAX_HISTORICAL_POINTS ==
  288

BUZZER_THRESHOLD ==
  38

SENSOR_PERIOD ==
  5

JANITOR_PERIOD ==
  3600

RETENTION_HOURS ==
  24

(* ------------------------------ bounds -------------------------------- *)

\* number of times the wall clock advances in one behaviour
MaxTicks ==
  2

\* number of times the wall clock advances when operations interleave
MaxTicksConc ==
  1

\* the largest number of readings in a window whose flush is examined alone
MaxWindow ==
  4

(* --------------------------- time and labels -------------------------- *)

SecondsPerDay == 24 * 3600

SecondsPerYear == 365 * SecondsPerDay

\* the process starts on January 3rd of year 1, at midnight
StartTime == SecondsPerYear + 2 * SecondsPerDay

\* the amounts by which the clock is observed to advance between two steps
ClockSteps == {HISTORICAL_INTERVAL, JANITOR_PERIOD}

\* Optional values: None, or a one-element tuple
None == << >>

Some(v) == << v >>

Val(o) == o[1]

\* strftime("%b %d %I:%M %p"): month, day, hour and minute; neither the
\* year nor the seconds are part of the label.  Encoded as the minute of the
\* year.
FormatLabel(t) == (t % SecondsPerYear) \div 60

\* strptime(f"{now.year} {label}", "%Y %b %d %I:%M %p"): the label read back
\* in the year of the current time.  A label that is no such string (here: a
\* negative number) raises ValueError, caught at lines 161-162.
ParseLabel(label, nowv) ==
  IF label < 0 THEN None
  ELSE Some((nowv \div SecondsPerYear) * SecondsPerYear + label * 60)

\* datetime.isoformat(): the date and the time of day, to the microsecond;
\* nothing of the time is left out
IsoFormat(t) == [date |-> t \div SecondsPerDay, time |-> t % SecondsPerDay]

\* a string that is no ISO time
BadIso == [date |-> -1, time |-> 0]

\* a parser that reads the date and drops the time of day
FromIsoFormat_DateOnly(s) ==
  IF s.date < 0 THEN None ELSE Some(s.date * SecondsPerDay)

\* datetime.fromisoformat(): None stands for ValueError
FromIsoFormat(s) ==
  IF s.date < 0 \/ s.time < 0 \/ s.time >= SecondsPerDay THEN None
  ELSE Some(s.date * SecondsPerDay + s.time)

(* --------------------------- pure helpers ----------------------------- *)

\* Python floats.  The readings are decimals with one digit after the point,
\* which a double does not hold exactly.  A double x >= 1.0 that lies near
\* t tenths is held here as the pair (t, d) with
\*       x = (t * 2^52 + d) / (10 * 2^52),
\* and a quotient x / n as (t, d) over n.  Every operation below is exact
\* integer arithmetic on these pairs: the doubles of the binade
\* [2^e, 2^(e+1)) are the multiples of 2^(e-52), that is the numerators
\* t * 2^52 + d that are multiples of 10 * 2^e * n.
Double(t, d) == [t |-> t, d |-> d]

RECURSIVE Pow2Mod(_, _)
Pow2Mod(k, g) == IF k = 0 THEN 1 % g ELSE (2 * Pow2Mod(k - 1, g)) % g

\* the binade of (t * 2^52 + d) / (10 * 2^52 * n)
Binade(t, d, n) ==
  LET e == CHOOSE k \in 0..20 : 10 * n * 2^k <= t /\ t < 10 * n * 2^(k + 1)
  IN  IF t = 10 * n * 2^e /\ d < 0 THEN e - 1 ELSE e

\* IEEE 754 round-to-nearest, ties to the even mantissa: the d of the double
\* nearest to (t * 2^52 + d) / (10 * 2^52 * n), as a numerator over n
Nearest(t, d, n) ==
  LET g == 10 * 2^Binade(t, d, n) * n
      r == ((t % g) * Pow2Mod(52, g) + d) % g
      r2 == ((t % (2 * g)) * Pow2Mod(52, 2 * g) + d) % (2 * g)
      up == IF 2 * r < g THEN FALSE
            ELSE IF 2 * r > g THEN TRUE
            ELSE r2 >= g
  IN  d - r + (IF up THEN g ELSE 0)

\* the double a reading of t tenths arrives as
FloatOf(t) == Double(t, Nearest(t, 0, 1))

\* x + y on doubles
FloatAdd(x, y) ==
  IF x.t = 0 THEN y
  ELSE Double(x.t + y.t, Nearest(x.t + y.t, x.d + y.d, 1))

\* sum(s): the builtin adds from the left, starting at 0, rounding each partial
\* sum to a double
RECURSIVE SumSeq(_)
SumSeq(s) ==
  IF s = << >> THEN Double(0, 0)
  ELSE FloatAdd(SumSeq(SubSeq(s, 1, Len(s) - 1)), FloatOf(s[Len(s)]))

\* round(sum / n, 1), in tenths: the quotient is rounded to a double, and
\* round() takes the tenth nearest to the exact value of that double; only a
\* double that is exactly halfway goes to the even tenth
Round1(sum, n) ==
  LET e == Nearest(sum.t, sum.d, n)
      q == sum.t \div n
      rho == sum.t % n
  IN  IF 2 * rho < n THEN q
      ELSE IF 2 * rho > n THEN q + 1
      ELSE IF e > 0 THEN q + 1
      ELSE IF e < 0 THEN q
      ELSE IF q % 2 = 0 THEN q ELSE q + 1

\* a slice taken from the wrong end, s[:n]
LastN_FromFront(s, n) ==
  IF Len(s) <= n THEN s ELSE SubSeq(s, 1, n)

\* Python's s[-n:]
LastN(s, n) ==
  IF Len(s) <= n THEN s ELSE SubSeq(s, Len(s) - n + 1, Len(s))

\* Python's s[k:]
DropFirst(s, k) == SubSeq(s, k + 1, Len(s))

EmptyHistory == [labels |-> << >>, temp |-> << >>, hum |-> << >>]

\* a scan that stops at a label it cannot read
KeepFrom_StopsAtUnreadable(labels, nowv) ==
  LET cutoff == nowv - RETENTION_HOURS * 3600
      hits == {i \in 1..Len(labels) :
                 \/ ParseLabel(labels[i], nowv) = None
                 \/ Val(ParseLabel(labels[i], nowv)) >= cutoff}
  IN  IF hits = {} THEN 0
      ELSE (CHOOSE i \in hits : \A j \in hits : i <= j) - 1

\* lines 146-162: the index (0-based) of the first label whose time, read
\* back in the current year, is not before the cutoff; 0 when there is none
KeepFrom(labels, nowv) ==
  LET cutoff == nowv - RETENTION_HOURS * 3600
      hits == {i \in 1..Len(labels) :
                 /\ ParseLabel(labels[i], nowv) # None
                 /\ Val(ParseLabel(labels[i], nowv)) >= cutoff}
  IN  IF hits = {} THEN 0
      ELSE (CHOOSE i \in hits : \A j \in hits : i <= j) - 1

(* ------------------------------ inputs -------------------------------- *)

\* what dht_device.temperature / dht_device.humidity deliver on a good read
Readings == {[temperature |-> 379, humidity |-> 500],
             [temperature |-> 380, humidity |-> 513]}

\* a history file left by an earlier run of this program: n points, their
\* windows gap seconds apart, the last window closed just before StartTime
HistoryFile(n, gap) ==
  [data |->
     [labels |-> [i \in 1..n |-> FormatLabel(StartTime - (n - i) * gap - 155)],
      temp   |-> [i \in 1..n |-> 370 + (i % 3)],
      hum    |-> [i \in 1..n |-> 500 + (i % 2)]],
   last_save |-> Some(IsoFormat(StartTime - SENSOR_PERIOD))]

NoFile == None

\* no file, or a full day of windows
InitialFiles ==
  {NoFile, Some(HistoryFile(MAX_HISTORICAL_POINTS, HISTORICAL_INTERVAL))}

\* two points, 23 hours apart
SparseFile == Some(HistoryFile(2, 23 * 3600))

\* the longest store whose pruning is examined alone
MaxStored ==
  3

\* labels a history file can hold: of a window more than a day before the
\* start, of the last window before the start, and a string that is no date
OldLabel == FormatLabel(StartTime - SecondsPerDay - HISTORICAL_INTERVAL)

RecentLabel == FormatLabel(StartTime - 155)

BadLabel == -1

\* a history file with the given labels; the values tell the points apart
LabelledFile(l) ==
  Some([data |-> [labels |-> l,
                  temp   |-> [i \in 1..Len(l) |-> 370 + i],
                  hum    |-> [i \in 1..Len(l) |-> 500 + i]],
        last_save |-> Some(IsoFormat(StartTime - SENSOR_PERIOD))])

\* every file of 1 to MaxStored points with such labels, in any order
PruneFiles ==
  {LabelledFile(l) :
     l \in UNION {[1..n -> {OldLabel, RecentLabel, BadLabel}] :
                    n \in 1..MaxStored}}

\* a file that is no JSON text
Garbage == [garbage |-> TRUE]

\* a JSON object with the key k, or without it
Key(k, o) == IF o = None THEN << >> ELSE (k :> Val(o))

\* the "data" objects a file can hold: each of the three keys present or
\* not, each list of up to two entries
DataObjects ==
  {Key("labels", l) @@ Key("temp", t) @@ Key("hum", h) :
     l \in {None, Some(<< >>), Some(<< RecentLabel >>),
            Some(<< OldLabel, RecentLabel >>)},
     t \in {None, Some(<< >>), Some(<< 371 >>), Some(<< 371, 372 >>)},
     h \in {None, Some(<< >>), Some(<< 501 >>), Some(<< 501, 502 >>)}}

\* what HIST_FILE can be at startup: absent, no JSON, or an object with or
\* without "data", with "last_save" absent, null, an ISO time or another string
LoadFiles ==
  {NoFile, Some(Garbage)} \cup
  {Some(Key("data", d) @@ Key("last_save", s)) :
     d \in {None} \cup {Some(o) : o \in DataObjects},
     s \in {None, Some(None), Some(Some(IsoFormat(StartTime - SENSOR_PERIOD))),
            Some(Some(BadIso))}}

\* the state of the directory of HIST_FILE: writable, or not
Disks == {"ok", "readonly"}

(* ------------------------------- state -------------------------------- *)

VARIABLES
  mode,                     \* "serial" or "conc": the scheduler (see above)
  now,                      \* the wall clock
  ticks,                    \* how often the clock has advanced
  disk,                     \* HIST_DIR: "ok", or "readonly"
  sensor_data,              \* line 24
  buzzer,                   \* lines 19-21: the pin's value, and deinit() done
  dht_released,             \* dht_device.exit() done
  stop_event,               \* line 27
  historical_data,          \* line 37
  last_historical_save,     \* line 38
  temp_readings_buffer,     \* line 43
  humidity_readings_buffer, \* line 44
  buffer_start_time,        \* line 45
  file,                     \* HIST_FILE: NoFile, or Some(its JSON content)
  pc,                       \* the position of each thread
  loc,                      \* the local variables of each thread
  resp,                     \* the last HTTP response sent
  flushed,                  \* history: for each point appended to the store,
                            \* in order, the start time of its window
  buzzer_of                 \* history: the time of the reading that
                            \* sensor_data["buzzer"] was computed from

live == << sensor_data, buzzer, dht_released >>

store == << historical_data, last_historical_save, file >>

bufs == << temp_readings_buffer, humidity_readings_buffer, buffer_start_time >>

clock == << mode, now, ticks, disk >>

ghost == << flushed, buzzer_of >>

vars == << clock, live, stop_event, store, bufs, pc, loc, resp, ghost >>

Threads == {"sensor", "janitor", "main", "http"}

\* the locals of a thread; pre and win are history: the store before this
\* thread's append, and the start time of the window the averages were
\* computed from
LocInit ==
  [temperature |-> 0, humidity |-> 0, read_at |-> 0, now |-> 0, wake |-> 0,
   timestamp |-> 0, avg_temp |-> 0, avg_hum |-> 0, keep_from |-> 0,
   ret |-> "", runs |-> 0, win |-> 0, pre |-> EmptyHistory]

\* lines 37-38: the store of a process that has loaded nothing
FreshStore == [historical_data |-> EmptyHistory, last_historical_save |-> None]

\* lines 48-64: the store after load_historical_data, called on a fresh
\* store.  json.load raises on a text that is no JSON (line 54);
\* fromisoformat raises on a string that is no ISO time (line 58);
\* historical_data['labels'] raises when the key is missing (line 59), after
\* last_historical_save was assigned.  Line 64 then empties historical_data.
LoadHistoricalData(f) ==
  IF f = NoFile THEN FreshStore
  ELSE IF "garbage" \in DOMAIN Val(f) THEN FreshStore
  ELSE
    LET data == Val(f)
        loaded == IF "data" \in DOMAIN data THEN data.data ELSE EmptyHistory
        str == IF "last_save" \in DOMAIN data THEN data.last_save ELSE None
    IN  IF str # None /\ FromIsoFormat(Val(str)) = None THEN FreshStore
        ELSE IF "labels" \notin DOMAIN loaded
          THEN [historical_data |-> EmptyHistory,
                last_historical_save |->
                  IF str = None THEN None ELSE FromIsoFormat(Val(str))]
        ELSE [historical_data |-> loaded,
              last_historical_save |->
                IF str = None THEN None ELSE FromIsoFormat(Val(str))]

\* the module state (lines 16-45) with the store st, the main thread at
\* position at, the history file f and the disk d
InitOn(m, f, d, st, at) ==
  /\ mode = m
  /\ now = StartTime
  /\ ticks = 0
  /\ disk = d
  /\ sensor_data = [temperature |-> None, humidity |-> None, buzzer |-> "OFF",
                    time |-> None, error |-> FALSE]
  /\ buzzer = [value |-> FALSE, released |-> FALSE]
  /\ dht_released = FALSE
  /\ stop_event = FALSE
  /\ file = f
  /\ historical_data = st.historical_data
  /\ last_historical_save = st.last_historical_save
  /\ temp_readings_buffer = << >>
  /\ humidity_readings_buffer = << >>
  /\ buffer_start_time = None
  /\ pc = [sensor |-> "loop", janitor |-> "sleep", main |-> at,
           http |-> "idle"]
  /\ loc = [t \in Threads |->
              IF t = "janitor"
                THEN [LocInit EXCEPT !.wake = StartTime + JANITOR_PERIOD]
                ELSE LocInit]
  /\ resp = [route |-> "none"]
  /\ flushed = << >>
  /\ buzzer_of = None

\* the state once the module is imported, the history file loaded and the two
\* threads started (lines 16-45, 322-336)
InitWith(m, f) == InitOn(m, f, "ok", LoadHistoricalData(f), "serve")

\* the process started without a file or on SparseFile, the directory
\* writable or not
InitPersist ==
  \E f \in {NoFile, SparseFile} : \E d \in Disks :
    InitOn("serial", f, d, LoadHistoricalData(f), "serve")

\* the state at line 323, before the history file is loaded
InitLoad == \E f \in LoadFiles : InitOn("serial", f, "ok", FreshStore, "start")

Init == \E f \in InitialFiles : InitWith("serial", f)

InitConc == InitWith("conc", SparseFile)

\* the process started on one of the files of PruneFiles
InitPrune == \E f \in PruneFiles : InitWith("serial", f)

\* the state at line 96, where add_to_buffer calls save_averaged_data: the
\* window was opened HISTORICAL_INTERVAL seconds ago, w is what was read since
InitWindow(w) ==
  LET n == Len(w)
  IN  /\ mode = "serial"
      /\ now = StartTime + HISTORICAL_INTERVAL
      /\ ticks = 0
      /\ disk = "ok"
      /\ sensor_data = [temperature |-> Some(w[n].temperature),
                        humidity |-> Some(w[n].humidity),
                        buzzer |-> IF w[n - 1].temperature >= BUZZER_THRESHOLD * 10
                                     THEN "ON" ELSE "OFF",
                        time |-> Some(StartTime + HISTORICAL_INTERVAL),
                        error |-> FALSE]
      /\ buzzer = [value |-> w[n - 1].temperature >= BUZZER_THRESHOLD * 10,
                   released |-> FALSE]
      /\ dht_released = FALSE
      /\ stop_event = FALSE
      /\ file = NoFile
      /\ historical_data = EmptyHistory
      /\ last_historical_save = None
      /\ temp_readings_buffer = [i \in 1..n |-> w[i].temperature]
      /\ humidity_readings_buffer = [i \in 1..n |-> w[i].humidity]
      /\ buffer_start_time = Some(StartTime)
      /\ pc = [sensor |-> "sv_compute", janitor |-> "sleep", main |-> "serve",
               http |-> "idle"]
      /\ loc = [t \in Threads |->
                  IF t = "janitor"
                    THEN [LocInit EXCEPT !.wake = StartTime + JANITOR_PERIOD]
                  ELSE IF t = "sensor"
                    THEN [LocInit EXCEPT
                            !.temperature = w[n].temperature,
                            !.humidity = w[n].humidity,
                            !.read_at = StartTime + HISTORICAL_INTERVAL,
                            !.now = StartTime + HISTORICAL_INTERVAL,
                            !.ret = "buzzer"]
                  ELSE LocInit]
      /\ resp = [route |-> "none"]
      /\ flushed = << >>
      /\ buzzer_of = Some(StartTime)

\* how long ago the open window began: just short of HISTORICAL_INTERVAL,
\* exactly that, and just over it
WindowAges ==
  {HISTORICAL_INTERVAL - SENSOR_PERIOD, HISTORICAL_INTERVAL,
   HISTORICAL_INTERVAL + SENSOR_PERIOD}

\* the state before an iteration of sensor_loop (line 202): the readings of
\* w were taken SENSOR_PERIOD seconds apart from StartTime on and are in the
\* buffer; the window, if w opened one, began age seconds ago
InitOpen(w, age) ==
  LET n == Len(w)
      last == StartTime + (n - 1) * SENSOR_PERIOD
  IN  /\ mode = "serial"
      /\ now = StartTime + age
      /\ ticks = 0
      /\ disk = "ok"
      /\ sensor_data =
           IF n = 0
             THEN [temperature |-> None, humidity |-> None, buzzer |-> "OFF",
                   time |-> None, error |-> FALSE]
             ELSE [temperature |-> Some(w[n].temperature),
                   humidity |-> Some(w[n].humidity),
                   buzzer |-> IF w[n].temperature >= BUZZER_THRESHOLD * 10
                                THEN "ON" ELSE "OFF",
                   time |-> Some(last),
                   error |-> FALSE]
      /\ buzzer = [value |-> n > 0 /\ w[n].temperature >= BUZZER_THRESHOLD * 10,
                   released |-> FALSE]
      /\ dht_released = FALSE
      /\ stop_event = FALSE
      /\ file = NoFile
      /\ historical_data = EmptyHistory
      /\ last_historical_save = None
      /\ temp_readings_buffer = [i \in 1..n |-> w[i].temperature]
      /\ humidity_readings_buffer = [i \in 1..n |-> w[i].humidity]
      /\ buffer_start_time = IF n = 0 THEN None ELSE Some(StartTime)
      /\ pc = [sensor |-> "loop", janitor |-> "sleep", main |-> "serve",
               http |-> "idle"]
      /\ loc = [t \in Threads |->
                  IF t = "janitor"
                    THEN [LocInit EXCEPT !.wake = StartTime + JANITOR_PERIOD]
                  ELSE IF t = "sensor"
                    THEN [LocInit EXCEPT !.wake = last + SENSOR_PERIOD]
                  ELSE LocInit]
      /\ resp = [route |-> "none"]
      /\ flushed = << >>
      /\ buzzer_of = IF n = 0 THEN None ELSE Some(last)

\* every buffer of fewer than MaxWindow readings, at every age of WindowAges
InitWindows ==
  \E n \in 0..(MaxWindow - 1) : \E w \in [1..n -> Readings] :
    \E age \in WindowAges : InitOpen(w, age)

\* every window of 2 to MaxWindow readings
InitAverage ==
  \E n \in 2..MaxWindow : \E w \in [1..n -> Readings] : InitWindow(w)

(* ----------------------------- scheduling ----------------------------- *)

\* a thread that is between two operations
Idle(t) ==
  CASE t = "sensor"  -> pc[t] \in {"loop", "done"}
    [] t = "janitor" -> pc[t] \in {"sleep", "done"}
    [] t = "main"    -> pc[t] \in {"serve", "exited"}
    [] t = "http"    -> pc[t] = "idle"

Quiescent == \A t \in Threads : Idle(t)

\* the process is alive until the main thread has left the interpreter
Alive == pc["main"] # "exited"

\* no response is on its way to a client
NoResp == resp.route = "none"

CanStep(t) ==
  /\ Alive
  /\ NoResp
  /\ mode = "conc" \/ \A o \in Threads \ {t} : Idle(o)

Goto(t, l) == pc' = [pc EXCEPT ![t] = l]

TickBound == IF mode = "serial" THEN MaxTicks ELSE MaxTicksConc

\* time passes; an operation that runs alone takes no time
Tick ==
  /\ Alive
  /\ NoResp
  /\ mode = "conc" \/ Quiescent
  /\ ticks < TickBound
  /\ \E d \in ClockSteps : now' = now + d
  /\ ticks' = ticks + 1
  /\ UNCHANGED << mode, disk, live, stop_event, store, bufs, pc, loc, resp, ghost >>

(* --------------------------- sampling loop ---------------------------- *)

\* line 240 and back to line 202: sleep, then the next iteration
EndIteration ==
  /\ pc' = [pc EXCEPT !["sensor"] = "loop"]
  /\ loc' = [loc EXCEPT !["sensor"] =
               [LocInit EXCEPT !.wake = now + SENSOR_PERIOD]]

\* an error path that also forgets the last good reading
SensorExcept_ForgetsReading ==
  /\ sensor_data' = [sensor_data EXCEPT !.error = TRUE,
                                        !.temperature = None,
                                        !.humidity = None,
                                        !.time = None]
  /\ EndIteration

\* lines 233-238: an exception anywhere in the try block sets the error flag
SensorExcept ==
  /\ sensor_data' = [sensor_data EXCEPT !.error = TRUE]
  /\ EndIteration

\* line 202: the sleep is over; the loop ends once stop_event is set
SensorLoop ==
  /\ CanStep("sensor")
  /\ pc["sensor"] = "loop"
  /\ now >= loc["sensor"].wake
  /\ IF stop_event THEN Goto("sensor", "done") ELSE Goto("sensor", "read")
  /\ UNCHANGED << clock, live, stop_event, store, bufs, loc, resp, ghost >>

\* a failed read that also switches the buzzer off
SensorReadFail_BuzzerOff ==
  /\ CanStep("sensor")
  /\ pc["sensor"] = "read"
  /\ sensor_data' = [sensor_data EXCEPT !.error = TRUE, !.buzzer = "OFF"]
  /\ buzzer' = [buzzer EXCEPT !.value = FALSE]
  /\ EndIteration
  /\ UNCHANGED << clock, dht_released, stop_event, store, bufs, resp, ghost >>

\* lines 204-207, 229-238: the driver raises, or a value is missing
SensorReadFail ==
  /\ CanStep("sensor")
  /\ pc["sensor"] = "read"
  /\ SensorExcept
  /\ UNCHANGED << clock, buzzer, dht_released, stop_event, store, bufs, resp,
                  ghost >>

\* the dict handed to sensor_data.update at lines 209-214
LiveUpdate(r, t) ==
  [sensor_data EXCEPT !.temperature = Some(r.temperature),
                      !.humidity = Some(r.humidity),
                      !.time = Some(t),
                      !.error = FALSE]

\* lines 204-214: both values read; sensor_data.update is one dict operation
SensorReadOk ==
  /\ CanStep("sensor")
  /\ pc["sensor"] = "read"
  /\ ~dht_released
  /\ \E r \in Readings :
       /\ sensor_data' = LiveUpdate(r, now)
       /\ loc' = [loc EXCEPT !["sensor"].temperature = r.temperature,
                             !["sensor"].humidity = r.humidity,
                             !["sensor"].read_at = now]
  /\ Goto("sensor", "ab_start")
  /\ UNCHANGED << clock, buzzer, dht_released, stop_event, store, bufs, resp,
                  ghost >>

\* lines 83-88: add_to_buffer opens a window when none is open
AddToBufferStart ==
  /\ CanStep("sensor")
  /\ pc["sensor"] = "ab_start"
  /\ loc' = [loc EXCEPT !["sensor"].now = now]
  /\ IF buffer_start_time = None
       THEN buffer_start_time' = Some(now)
       ELSE UNCHANGED buffer_start_time
  /\ Goto("sensor", "ab_temp")
  /\ UNCHANGED << clock, live, stop_event, store, temp_readings_buffer,
                  humidity_readings_buffer, resp, ghost >>

\* line 91
AddToBufferTemp ==
  /\ CanStep("sensor")
  /\ pc["sensor"] = "ab_temp"
  /\ temp_readings_buffer' =
       Append(temp_readings_buffer, loc["sensor"].temperature)
  /\ Goto("sensor", "ab_hum")
  /\ UNCHANGED << clock, live, stop_event, store, humidity_readings_buffer,
                  buffer_start_time, loc, resp, ghost >>

\* line 92
AddToBufferHum ==
  /\ CanStep("sensor")
  /\ pc["sensor"] = "ab_hum"
  /\ humidity_readings_buffer' =
       Append(humidity_readings_buffer, loc["sensor"].humidity)
  /\ Goto("sensor", "ab_check")
  /\ UNCHANGED << clock, live, stop_event, store, temp_readings_buffer,
                  buffer_start_time, loc, resp, ghost >>

\* a window that must have lasted longer than HISTORICAL_INTERVAL
WindowElapsed_Strict(t, start) == t - start > HISTORICAL_INTERVAL

\* line 95: has the window lasted HISTORICAL_INTERVAL seconds?
WindowElapsed(t, start) == t - start >= HISTORICAL_INTERVAL

\* lines 95-96; with buffer_start_time None the subtraction raises TypeError,
\* which sensor_loop catches at line 236
AddToBufferCheck ==
  /\ CanStep("sensor")
  /\ pc["sensor"] = "ab_check"
  /\ IF buffer_start_time = None
       THEN SensorExcept
       ELSE /\ IF WindowElapsed(loc["sensor"].now, Val(buffer_start_time))
                 THEN /\ Goto("sensor", "sv_compute")
                      /\ loc' = [loc EXCEPT !["sensor"].ret = "buzzer"]
                 ELSE /\ Goto("sensor", "buzzer")
                      /\ UNCHANGED loc
            /\ UNCHANGED sensor_data
  /\ UNCHANGED << clock, buzzer, dht_released, stop_event, store, bufs, resp,
                  ghost >>

\* a threshold that leaves the boundary out
BuzzerOn_Strict(temperature) == temperature > BUZZER_THRESHOLD * 10

\* line 221
BuzzerOn(temperature) == temperature >= BUZZER_THRESHOLD * 10

\* lines 221-228: drive the buzzer and record its state; writing a released
\* pin raises, which sensor_loop catches at line 236
SensorBuzzer ==
  /\ CanStep("sensor")
  /\ pc["sensor"] = "buzzer"
  /\ IF buzzer.released
       THEN /\ SensorExcept
            /\ UNCHANGED << buzzer, buzzer_of >>
       ELSE /\ buzzer' =
                 [buzzer EXCEPT !.value = BuzzerOn(loc["sensor"].temperature)]
            /\ sensor_data' =
                 [sensor_data EXCEPT !.buzzer =
                    IF BuzzerOn(loc["sensor"].temperature) THEN "ON" ELSE "OFF"]
            /\ buzzer_of' = Some(loc["sensor"].read_at)
            /\ EndIteration
  /\ UNCHANGED << clock, dht_released, stop_event, store, bufs, resp,
                  flushed >>

(* ------------------------- save_averaged_data -------------------------- *)

\* an exception leaves save_averaged_data: sensor_loop catches it (line 236);
\* in cleanup it ends the handler, and the interpreter goes on to its atexit
\* hooks (line 195) or, from there, out of the process
SaveRaise(t) ==
  IF t = "sensor"
    THEN SensorExcept
    ELSE /\ UNCHANGED sensor_data
         /\ IF loc[t].runs = 1
              THEN /\ Goto(t, "cl_check")
                   /\ loc' = [loc EXCEPT ![t].runs = 2]
              ELSE /\ Goto(t, "exited")
                   /\ UNCHANGED loc

\* a flush that forgets the save time when nothing is buffered
SaveCompute_EmptyForgets(t) ==
  /\ CanStep(t)
  /\ pc[t] = "sv_compute"
  /\ IF temp_readings_buffer = << >> \/ humidity_readings_buffer = << >>
       THEN /\ Goto(t, loc[t].ret)
            /\ last_historical_save' = None
            /\ UNCHANGED << loc, sensor_data >>
       ELSE IF buffer_start_time = None
         THEN /\ SaveRaise(t)
              /\ UNCHANGED last_historical_save
         ELSE /\ loc' = [loc EXCEPT
                   ![t].avg_temp = Round1(SumSeq(temp_readings_buffer),
                                          Len(temp_readings_buffer)),
                   ![t].avg_hum = Round1(SumSeq(humidity_readings_buffer),
                                         Len(humidity_readings_buffer)),
                   ![t].timestamp = FormatLabel(Val(buffer_start_time)
                                                + HISTORICAL_INTERVAL \div 2),
                   ![t].win = Val(buffer_start_time)]
              /\ Goto(t, "sv_labels")
              /\ UNCHANGED << sensor_data, last_historical_save >>
  /\ UNCHANGED << clock, buzzer, dht_released, stop_event, historical_data,
                  file, bufs, resp, ghost >>

\* lines 102-111: nothing to do on an empty buffer; else the averages and the
\* label of the middle of the window
SaveCompute(t) ==
  /\ CanStep(t)
  /\ pc[t] = "sv_compute"
  /\ IF temp_readings_buffer = << >> \/ humidity_readings_buffer = << >>
       THEN /\ Goto(t, loc[t].ret)
            /\ UNCHANGED << loc, sensor_data >>
       ELSE IF buffer_start_time = None
         THEN SaveRaise(t)
         ELSE /\ loc' = [loc EXCEPT
                   ![t].avg_temp = Round1(SumSeq(temp_readings_buffer),
                                          Len(temp_readings_buffer)),
                   ![t].avg_hum = Round1(SumSeq(humidity_readings_buffer),
                                         Len(humidity_readings_buffer)),
                   ![t].timestamp = FormatLabel(Val(buffer_start_time)
                                                + HISTORICAL_INTERVAL \div 2),
                   ![t].win = Val(buffer_start_time)]
              /\ Goto(t, "sv_labels")
              /\ UNCHANGED sensor_data
  /\ UNCHANGED << clock, buzzer, dht_released, stop_event, store, bufs, resp,
                  ghost >>

\* line 114
SaveLabels(t) ==
  /\ CanStep(t)
  /\ pc[t] = "sv_labels"
  /\ historical_data' =
       [historical_data EXCEPT !.labels = Append(@, loc[t].timestamp)]
  /\ loc' = [loc EXCEPT ![t].pre = historical_data]
  /\ flushed' = Append(flushed, loc[t].win)
  /\ Goto(t, "sv_temp")
  /\ UNCHANGED << clock, live, stop_event, last_historical_save, file, bufs,
                  resp, buzzer_of >>

\* line 115
SaveTemp(t) ==
  /\ CanStep(t)
  /\ pc[t] = "sv_temp"
  /\ historical_data' =
       [historical_data EXCEPT !.temp = Append(@, loc[t].avg_temp)]
  /\ Goto(t, "sv_hum")
  /\ UNCHANGED << clock, live, stop_event, last_historical_save, file, bufs,
                  loc, resp, ghost >>

\* line 116
SaveHum(t) ==
  /\ CanStep(t)
  /\ pc[t] = "sv_hum"
  /\ historical_data' =
       [historical_data EXCEPT !.hum = Append(@, loc[t].avg_hum)]
  /\ Goto(t, "sv_trunc")
  /\ UNCHANGED << clock, live, stop_event, last_historical_save, file, bufs,
                  loc, resp, ghost >>

\* a truncation that is late by one point
Truncated_LateByOne(h) ==
  IF Len(h.labels) > MAX_HISTORICAL_POINTS + 1
    THEN [labels |-> LastN(h.labels, MAX_HISTORICAL_POINTS),
          temp   |-> LastN(h.temp, MAX_HISTORICAL_POINTS),
          hum    |-> LastN(h.hum, MAX_HISTORICAL_POINTS)]
    ELSE h

\* lines 119-122: keep only the last MAX_HISTORICAL_POINTS
Truncated(h) ==
  IF Len(h.labels) > MAX_HISTORICAL_POINTS
    THEN [labels |-> LastN(h.labels, MAX_HISTORICAL_POINTS),
          temp   |-> LastN(h.temp, MAX_HISTORICAL_POINTS),
          hum    |-> LastN(h.hum, MAX_HISTORICAL_POINTS)]
    ELSE h

SaveTruncate(t) ==
  /\ CanStep(t)
  /\ pc[t] = "sv_trunc"
  /\ historical_data' = Truncated(historical_data)
  /\ Goto(t, "sv_persist")
  /\ UNCHANGED << clock, live, stop_event, last_historical_save, file, bufs,
                  loc, resp, ghost >>

\* lines 69-74: what save_historical_data writes
FileContent(h, last) ==
  Some([data |-> h,
        last_save |-> IF last = None THEN None
                      ELSE Some(IsoFormat(Val(last)))])

\* lines 66-77: the file after save_historical_data; where the directory
\* cannot be written, open() raises, which lines 76-77 catch and print
Saved(h, last) == IF disk = "ok" THEN FileContent(h, last) ELSE file

\* a save that writes the file before the time of the save is taken
SavePersist_StaleStamp(t) ==
  /\ CanStep(t)
  /\ pc[t] = "sv_persist"
  /\ last_historical_save' = Some(now)
  /\ file' = Saved(historical_data, last_historical_save)
  /\ Goto(t, "sv_reset")
  /\ UNCHANGED << clock, live, stop_event, historical_data, bufs, loc, resp,
                  ghost >>

\* lines 124-127
SavePersist(t) ==
  /\ CanStep(t)
  /\ pc[t] = "sv_persist"
  /\ last_historical_save' = Some(now)
  /\ file' = Saved(historical_data, Some(now))
  /\ Goto(t, "sv_reset")
  /\ UNCHANGED << clock, live, stop_event, historical_data, bufs, loc, resp,
                  ghost >>

\* lines 132-136: the buffer is closed and empty again
SaveReset(t) ==
  /\ CanStep(t)
  /\ pc[t] = "sv_reset"
  /\ temp_readings_buffer' = << >>
  /\ humidity_readings_buffer' = << >>
  /\ buffer_start_time' = None
  /\ Goto(t, loc[t].ret)
  /\ loc' = [loc EXCEPT ![t].pre = EmptyHistory, ![t].ret = ""]
  /\ UNCHANGED << clock, live, stop_event, store, resp, ghost >>

(* ------------------------------ janitor -------------------------------- *)

\* back to time.sleep(3600) at line 246
JanitorSleep ==
  /\ pc' = [pc EXCEPT !["janitor"] = "sleep"]
  /\ loc' = [loc EXCEPT !["janitor"] =
               [LocInit EXCEPT !.wake = now + JANITOR_PERIOD]]

\* lines 245-248: the hour is over; clean unless stop_event is set
JanitorWake ==
  /\ CanStep("janitor")
  /\ pc["janitor"] = "sleep"
  /\ now >= loc["janitor"].wake
  /\ IF stop_event THEN Goto("janitor", "done") ELSE Goto("janitor", "co_scan")
  /\ UNCHANGED << clock, live, stop_event, store, bufs, loc, resp, ghost >>

\* lines 140-164: clean_old_data looks for the first label to keep
CleanScan ==
  /\ CanStep("janitor")
  /\ pc["janitor"] = "co_scan"
  /\ IF /\ historical_data.labels # << >>
        /\ KeepFrom(historical_data.labels, now) > 0
       THEN /\ loc' = [loc EXCEPT !["janitor"].keep_from =
                                    KeepFrom(historical_data.labels, now),
                                  !["janitor"].now = now,
                                  !["janitor"].pre = historical_data]
            /\ Goto("janitor", "co_labels")
       ELSE JanitorSleep
  /\ UNCHANGED << clock, live, stop_event, store, bufs, resp, ghost >>

\* line 165
CleanLabels ==
  /\ CanStep("janitor")
  /\ pc["janitor"] = "co_labels"
  /\ historical_data' = [historical_data EXCEPT !.labels =
                           DropFirst(@, loc["janitor"].keep_from)]
  /\ Goto("janitor", "co_temp")
  /\ UNCHANGED << clock, live, stop_event, last_historical_save, file, bufs,
                  loc, resp, ghost >>

\* line 166
CleanTemp ==
  /\ CanStep("janitor")
  /\ pc["janitor"] = "co_temp"
  /\ historical_data' = [historical_data EXCEPT !.temp =
                           DropFirst(@, loc["janitor"].keep_from)]
  /\ Goto("janitor", "co_hum")
  /\ UNCHANGED << clock, live, stop_event, last_historical_save, file, bufs,
                  loc, resp, ghost >>

\* line 167
CleanHum ==
  /\ CanStep("janitor")
  /\ pc["janitor"] = "co_hum"
  /\ historical_data' = [historical_data EXCEPT !.hum =
                           DropFirst(@, loc["janitor"].keep_from)]
  /\ Goto("janitor", "co_save")
  /\ UNCHANGED << clock, live, stop_event, last_historical_save, file, bufs,
                  loc, resp, ghost >>

\* line 168
CleanSave ==
  /\ CanStep("janitor")
  /\ pc["janitor"] = "co_save"
  /\ file' = Saved(historical_data, last_historical_save)
  /\ JanitorSleep
  /\ UNCHANGED << clock, live, stop_event, historical_data,
                  last_historical_save, bufs, resp, ghost >>

(* ---------------------------- HTTP handlers ---------------------------- *)

\* lines 280-281: clear_history rebinds the store
ClearHistory ==
  /\ CanStep("http")
  /\ pc["http"] = "idle"
  /\ historical_data' = EmptyHistory
  /\ last_historical_save' = None
  /\ Goto("http", "ch_temp")
  /\ UNCHANGED << clock, live, stop_event, file, bufs, loc, resp, ghost >>

\* line 284
ClearTemp ==
  /\ CanStep("http")
  /\ pc["http"] = "ch_temp"
  /\ temp_readings_buffer' = << >>
  /\ Goto("http", "ch_hum")
  /\ UNCHANGED << clock, live, stop_event, store, humidity_readings_buffer,
                  buffer_start_time, loc, resp, ghost >>

\* line 285
ClearHum ==
  /\ CanStep("http")
  /\ pc["http"] = "ch_hum"
  /\ humidity_readings_buffer' = << >>
  /\ Goto("http", "ch_start")
  /\ UNCHANGED << clock, live, stop_event, store, temp_readings_buffer,
                  buffer_start_time, loc, resp, ghost >>

\* line 286
ClearStart ==
  /\ CanStep("http")
  /\ pc["http"] = "ch_start"
  /\ buffer_start_time' = None
  /\ Goto("http", "ch_file")
  /\ UNCHANGED << clock, live, stop_event, store, temp_readings_buffer,
                  humidity_readings_buffer, loc, resp, ghost >>

\* a handler that answers without removing the file
ClearFile_KeepsFile ==
  /\ CanStep("http")
  /\ pc["http"] = "ch_file"
  /\ resp' = [route |-> "clear_history", status |-> "success"]
  /\ Goto("http", "idle")
  /\ UNCHANGED << clock, live, stop_event, store, bufs, loc, ghost >>

\* lines 289-296: the file is removed and the handler answers; where the
\* directory cannot be written, os.remove raises and the answer is a 500
ClearFile ==
  /\ CanStep("http")
  /\ pc["http"] = "ch_file"
  /\ IF file = NoFile \/ disk = "ok"
       THEN /\ file' = NoFile
            /\ resp' = [route |-> "clear_history", status |-> "success"]
       ELSE /\ file' = file
            /\ resp' = [route |-> "clear_history", status |-> "error"]
  /\ Goto("http", "idle")
  /\ UNCHANGED << clock, live, stop_event, historical_data,
                  last_historical_save, bufs, loc, ghost >>

\* a read-only handler runs when the scheduler lets a request in
CanRead ==
  /\ Alive
  /\ NoResp
  /\ mode = "conc" \/ Quiescent

\* lines 262-264; the response carries, as history, the reading its buzzer
\* field was computed from
GetSensor ==
  /\ CanRead
  /\ resp' = [route |-> "sensor", body |-> sensor_data,
               buzzer_of |-> buzzer_of]
  /\ UNCHANGED << clock, live, stop_event, store, bufs, pc, loc, ghost >>

\* lines 266-273
LoadHistory ==
  /\ CanRead
  /\ resp' = [route |-> "load_history", body |-> historical_data]
  /\ UNCHANGED << clock, live, stop_event, store, bufs, pc, loc, ghost >>

\* lines 312-315: seconds until the window closes, never negative
NextSaveIn ==
  IF buffer_start_time = None THEN None
  ELSE LET remaining == Val(buffer_start_time) + HISTORICAL_INTERVAL - now
       IN  Some(IF remaining > 0 THEN remaining ELSE 0)

\* lines 302-310
Stats ==
  [total_points |-> Len(historical_data.labels),
   oldest_point |-> IF historical_data.labels # << >>
                      THEN Some(Head(historical_data.labels)) ELSE None,
   newest_point |-> IF historical_data.labels # << >>
                      THEN Some(historical_data.labels[Len(historical_data.labels)])
                      ELSE None,
   last_save |-> last_historical_save,
   buffered_readings |-> Len(temp_readings_buffer),
   buffer_start |-> buffer_start_time,
   next_save_in |-> NextSaveIn]

\* lines 298-319
HistoryStats ==
  /\ CanRead
  /\ resp' = [route |-> "history_stats", body |-> Stats]
  /\ UNCHANGED << clock, live, stop_event, store, bufs, pc, loc, ghost >>

\* the response reaches the client; nothing else happens in between, which
\* loses no behaviour: the response is already computed
Respond ==
  /\ ~NoResp
  /\ resp' = [route |-> "none"]
  /\ UNCHANGED << clock, live, stop_event, store, bufs, pc, loc, ghost >>

(* ------------------------------- startup ------------------------------- *)

\* line 324: load_historical_data, before the threads are started
Startup ==
  /\ pc["main"] = "start"
  /\ historical_data' = LoadHistoricalData(file).historical_data
  /\ last_historical_save' = LoadHistoricalData(file).last_historical_save
  /\ Goto("main", "serve")
  /\ UNCHANGED << clock, live, stop_event, file, bufs, loc, resp, ghost >>

(* ------------------------------ shutdown ------------------------------- *)

\* lines 172-174: SIGINT or SIGTERM runs cleanup in the main thread
Signal ==
  /\ CanStep("main")
  /\ pc["main"] = "serve"
  /\ stop_event' = TRUE
  /\ loc' = [loc EXCEPT !["main"].runs = 1]
  /\ Goto("main", "cl_check")
  /\ UNCHANGED << clock, live, store, bufs, resp, ghost >>

\* lines 177-179: flush what is buffered
CleanupCheck ==
  /\ CanStep("main")
  /\ pc["main"] = "cl_check"
  /\ IF temp_readings_buffer # << >> /\ humidity_readings_buffer # << >>
       THEN /\ Goto("main", "sv_compute")
            /\ loc' = [loc EXCEPT !["main"].ret = "cl_off"]
       ELSE /\ Goto("main", "cl_off")
            /\ UNCHANGED loc
  /\ UNCHANGED << clock, live, stop_event, store, bufs, resp, ghost >>

\* line 182; on a released pin the write raises and line 183 is skipped
CleanupOff ==
  /\ CanStep("main")
  /\ pc["main"] = "cl_off"
  /\ IF buzzer.released
       THEN /\ Goto("main", "cl_dht")
            /\ UNCHANGED buzzer
       ELSE /\ Goto("main", "cl_deinit")
            /\ buzzer' = [buzzer EXCEPT !.value = FALSE]
  /\ UNCHANGED << clock, sensor_data, dht_released, stop_event, store, bufs,
                  loc, resp, ghost >>

\* line 183
CleanupDeinit ==
  /\ CanStep("main")
  /\ pc["main"] = "cl_deinit"
  /\ buzzer' = [buzzer EXCEPT !.released = TRUE]
  /\ Goto("main", "cl_dht")
  /\ UNCHANGED << clock, sensor_data, dht_released, stop_event, store, bufs,
                  loc, resp, ghost >>

\* lines 187-191
CleanupDht ==
  /\ CanStep("main")
  /\ pc["main"] = "cl_dht"
  /\ dht_released' = TRUE
  /\ Goto("main", "cl_exit")
  /\ UNCHANGED << clock, sensor_data, buzzer, stop_event, store, bufs, loc,
                  resp, ghost >>

\* line 193: sys.exit(0).  Leaving the handler, the interpreter runs the
\* atexit hook of line 195, cleanup again (from line 174, stop_event is set
\* already); leaving that one, the process ends.
CleanupExit ==
  /\ CanStep("main")
  /\ pc["main"] = "cl_exit"
  /\ IF loc["main"].runs = 1
       THEN /\ Goto("main", "cl_check")
            /\ loc' = [loc EXCEPT !["main"].runs = 2]
       ELSE /\ Goto("main", "exited")
            /\ UNCHANGED loc
  /\ UNCHANGED << clock, live, stop_event, store, bufs, resp, ghost >>

(* --------------------------- specifications ---------------------------- *)

SensorStep ==
  \/ SensorLoop
  \/ SensorReadFail
  \/ SensorReadOk
  \/ AddToBufferStart
  \/ AddToBufferTemp
  \/ AddToBufferHum
  \/ AddToBufferCheck
  \/ SensorBuzzer
  \/ SaveCompute("sensor")
  \/ SaveLabels("sensor")
  \/ SaveTemp("sensor")
  \/ SaveHum("sensor")
  \/ SaveTruncate("sensor")
  \/ SavePersist("sensor")
  \/ SaveReset("sensor")

JanitorStep ==
  \/ JanitorWake
  \/ CleanScan
  \/ CleanLabels
  \/ CleanTemp
  \/ CleanHum
  \/ CleanSave

HttpStep ==
  \/ ClearHistory
  \/ ClearTemp
  \/ ClearHum
  \/ ClearStart
  \/ ClearFile
  \/ GetSensor
  \/ LoadHistory
  \/ HistoryStats
  \/ Respond

MainStep ==
  \/ Signal
  \/ CleanupCheck
  \/ SaveCompute("main")
  \/ SaveLabels("main")
  \/ SaveTemp("main")
  \/ SaveHum("main")
  \/ SaveTruncate("main")
  \/ SavePersist("main")
  \/ SaveReset("main")
  \/ CleanupOff
  \/ CleanupDeinit
  \/ CleanupDht
  \/ CleanupExit

Next == Tick \/ SensorStep \/ JanitorStep \/ HttpStep \/ MainStep

\* the process while it serves: no signal arrives
NextServe == Tick \/ SensorStep \/ JanitorStep \/ HttpStep

\* the process around its shutdown: the janitor sleeps, no request arrives
NextShutdown == Tick \/ SensorStep \/ MainStep

\* the flush of one window by the sampling loop, and the rest of its iteration
NextAverage ==
  \/ SaveCompute("sensor")
  \/ SaveLabels("sensor")
  \/ SaveTemp("sensor")
  \/ SaveHum("sensor")
  \/ SaveTruncate("sensor")
  \/ SavePersist("sensor")
  \/ SaveReset("sensor")
  \/ SensorBuzzer

\* the start of the process
NextLoad == Startup

\* one iteration of the sampling loop, requests and the shutdown, while the
\* clock stands
NextWindow == SensorStep \/ HttpStep \/ MainStep

\* the janitor alone, as time passes
NextPrune == Tick \/ JanitorStep

\* every operation runs to completion before another starts
Spec == Init /\ [][Next]_vars

\* the threads interleave while the process serves
SpecConc == InitConc /\ [][NextServe]_vars

\* the sampling loop and cleanup interleave
SpecShutdown == InitConc /\ [][NextShutdown]_vars

\* save_averaged_data applied to every window
SpecAverage == InitAverage /\ [][NextAverage]_vars

\* the serving process, one operation at a time, on a disk that takes the
\* writes or refuses them
SpecPersist == InitPersist /\ [][NextServe]_vars

\* add_to_buffer applied to every open window
SpecWindow == InitWindows /\ [][NextWindow]_vars

\* load_historical_data applied to every file
SpecLoad == InitLoad /\ [][NextLoad]_vars

\* clean_old_data applied to every store
SpecPrune == InitPrune /\ [][NextPrune]_vars

(* ------------------------------- claims -------------------------------- *)

SameLength(h) ==
  /\ Len(h.labels) = Len(h.temp)
  /\ Len(h.temp) = Len(h.hum)

\* C1: with the operations executed one at a time, after every completed
\* append, prune and clear the three sequences of historical_data have the
\* same length, and that length is at most MAX_HISTORICAL_POINTS.
C1_StoreShape ==
  Quiescent =>
    /\ SameLength(historical_data)
    /\ Len(historical_data.labels) <= MAX_HISTORICAL_POINTS

\* a point has been appended to a full store, which is full again
C1_Witness ==
  /\ Quiescent
  /\ flushed # << >>
  /\ Len(historical_data.labels) = MAX_HISTORICAL_POINTS

\* the point a thread is appending
NewPoint(t) ==
  [label |-> loc[t].timestamp, temp |-> loc[t].avg_temp, hum |-> loc[t].avg_hum]

Point(h, i) == [label |-> h.labels[i], temp |-> h.temp[i], hum |-> h.hum[i]]

\* C2: once the append to a store of MAX_HISTORICAL_POINTS points is done,
\* the store holds the old points without the oldest, in their order, and the
\* new point last; an append to a smaller store keeps every old point and
\* puts the new one last.
C2_Eviction ==
  \A t \in {"sensor", "main"} :
    pc[t] \in {"sv_persist", "sv_reset"} =>
      LET old == loc[t].pre
          n == Len(old.labels)
          h == historical_data
      IN  /\ SameLength(h)
          /\ Point(h, Len(h.labels)) = NewPoint(t)
          /\ n = MAX_HISTORICAL_POINTS =>
               /\ Len(h.labels) = MAX_HISTORICAL_POINTS
               /\ \A i \in 1..(n - 1) : Point(h, i) = Point(old, i + 1)
          /\ n < MAX_HISTORICAL_POINTS =>
               /\ Len(h.labels) = n + 1
               /\ \A i \in 1..n : Point(h, i) = Point(old, i)

\* the append to a full store has just evicted
C2_Witness ==
  \E t \in {"sensor", "main"} :
    /\ pc[t] = "sv_persist"
    /\ Len(loc[t].pre.labels) = MAX_HISTORICAL_POINTS

\* C3: at most one averaged point is appended to the store for each
\* averaging window, however the sampling loop's flush and the flush of
\* cleanup interleave.
C3_OnePointPerWindow ==
  \A i, j \in 1..Len(flushed) : i # j => flushed[i] # flushed[j]

\* cleanup has left line 182 behind: the actuator is switched off
ActuatorOffByCleanup ==
  \/ pc["main"] \in {"cl_deinit", "cl_dht", "cl_exit", "exited"}
  \/ loc["main"].runs = 2

\* C4: the forced flush of cleanup starts only when no sampling iteration is
\* in flight, and once cleanup has switched the actuator off no step of the
\* sampling loop writes the actuator or appends to the averaging buffer.
C4_ShutdownOrder ==
  [][ /\ (pc["main"] = "cl_check" /\ pc'["main"] = "sv_compute")
           => Idle("sensor")
      /\ (ActuatorOffByCleanup /\ pc'["sensor"] # pc["sensor"])
           => /\ buzzer'.value = buzzer.value
              /\ Len(temp_readings_buffer') <= Len(temp_readings_buffer)
              /\ Len(humidity_readings_buffer')
                   <= Len(humidity_readings_buffer) ]_vars

\* C5: no load_history response shows labels, temp and hum of different
\* lengths, and once every operation on the store has completed no point is
\* in some of the three sequences and missing from the others.
C5_NoTornStore ==
  /\ resp.route = "load_history" => SameLength(resp.body)
  /\ Quiescent => SameLength(historical_data)

\* C6: outside the statements of add_to_buffer and clear_history that write
\* the buffer, the two buffers have the same length and buffer_start_time is
\* None exactly when both are empty.
C6_BufferShape ==
  (pc["sensor"] \notin {"ab_temp", "ab_hum"} /\ pc["http"] = "idle") =>
    /\ Len(temp_readings_buffer) = Len(humidity_readings_buffer)
    /\ buffer_start_time = None
         <=> (temp_readings_buffer = << >> /\ humidity_readings_buffer = << >>)

\* C7: no /sensor response carries the temperature, humidity and time of one
\* reading together with a buzzer state computed from an earlier reading.
C7_NoTornSnapshot ==
  (resp.route = "sensor" /\ resp.buzzer_of # None) =>
    resp.buzzer_of = resp.body.time

\* the sampling loop takes the step that ends an iteration whose read
\* succeeded
GoodIterationEnds ==
  /\ pc["sensor"] \notin {"loop", "read", "done"}
  /\ pc'["sensor"] = "loop"

\* the sampling loop takes the step of a failed read
ReadFails == pc["sensor"] = "read" /\ pc'["sensor"] = "loop"

\* the sampling loop takes the step of a successful read
ReadSucceeds == pc["sensor"] = "read" /\ pc'["sensor"] = "ab_start"

\* C8: when an iteration that read temperature t ends, the actuator is on
\* exactly if t >= 38 degrees, and sensor_data["buzzer"] says "ON" exactly if
\* the actuator is on.
C8_Threshold ==
  [][ GoodIterationEnds =>
        /\ buzzer'.value <=> loc["sensor"].temperature >= 380
        /\ sensor_data'.buzzer = (IF buzzer'.value THEN "ON" ELSE "OFF") ]_vars

\* an iteration on the boundary, 38.0 degrees, has switched the actuator on
C8_Witness ==
  /\ pc["sensor"] = "loop"
  /\ sensor_data.temperature = Some(380)
  /\ buzzer_of = sensor_data.time
  /\ buzzer.value
  /\ sensor_data.buzzer = "ON"

\* C9: a failed read sets the error flag and keeps the last temperature,
\* humidity and time; the flag is cleared by nothing but a successful read,
\* which replaces temperature, humidity and time, and whose iteration ends
\* with the flag still clear and the buzzer state computed from that reading.
C9_ErrorFlag ==
  [][ /\ ReadFails =>
           /\ sensor_data'.error
           /\ sensor_data'.temperature = sensor_data.temperature
           /\ sensor_data'.humidity = sensor_data.humidity
           /\ sensor_data'.time = sensor_data.time
      /\ (sensor_data.error /\ ~sensor_data'.error) => ReadSucceeds
      /\ ReadSucceeds =>
           /\ ~sensor_data'.error
           /\ sensor_data'.temperature = Some(loc'["sensor"].temperature)
           /\ sensor_data'.humidity = Some(loc'["sensor"].humidity)
           /\ sensor_data'.time = Some(now)
      /\ GoodIterationEnds =>
           /\ ~sensor_data'.error
           /\ buzzer_of' = sensor_data'.time ]_vars

\* a read has failed after a good one: the flag is set, the reading is kept
C9_Witness ==
  /\ pc["sensor"] = "loop"
  /\ sensor_data.error
  /\ sensor_data.temperature # None
  /\ sensor_data.time # None
  /\ sensor_data.time # Some(now)

\* C10: the step of a failed read changes sensor_data["error"] and nothing
\* else: not the actuator, not sensor_data["buzzer"], not the averaging
\* buffer, not the store or its file.
C10_FailedReadFrame ==
  [][ ReadFails =>
        /\ sensor_data' = [sensor_data EXCEPT !.error = TRUE]
        /\ UNCHANGED << buzzer, dht_released, stop_event, store, bufs >> ]_vars

\* a read has failed while the actuator was on and a window was open
C10_Witness ==
  /\ pc["sensor"] = "loop"
  /\ sensor_data.error
  /\ buzzer.value
  /\ temp_readings_buffer # << >>
  /\ buffer_start_time # None

\* save_averaged_data is entered with one of the buffers empty
EmptyFlush(t) ==
  /\ pc[t] = "sv_compute"
  /\ temp_readings_buffer = << >> \/ humidity_readings_buffer = << >>

\* C11: save_averaged_data entered with nothing buffered returns without a
\* point: it appends nothing and leaves historical_data,
\* last_historical_save, the file and the buffer state as they were.
C11_EmptyFlushFrame ==
  [][ \A t \in {"sensor", "main"} :
        (EmptyFlush(t) /\ pc'[t] # pc[t]) =>
          /\ pc'[t] = loc[t].ret
          /\ flushed' = flushed
          /\ UNCHANGED << store, bufs >> ]_vars

\* cleanup called save_averaged_data, which found the buffers emptied in the
\* meantime and returned to line 181 without a point
C11_Witness ==
  /\ pc["main"] = "cl_off"
  /\ loc["main"].ret = "cl_off"
  /\ temp_readings_buffer = << >>
  /\ humidity_readings_buffer = << >>

\* the exact sum of a sequence of integers
RECURSIVE Total(_)
Total(s) == IF s = << >> THEN 0 ELSE s[1] + Total(Tail(s))

\* v tenths is the mean of s rounded to one decimal: no tenth is nearer
IsRoundedMean(v, s) ==
  LET dist == Len(s) * v - Total(s)
  IN  -Len(s) <= 2 * dist /\ 2 * dist <= Len(s)

\* the orders in which the readings of s could have arrived
Reorderings(s) ==
  {[i \in 1..Len(s) |-> s[f[i]]] :
     f \in {g \in [1..Len(s) -> 1..Len(s)] :
              \A i, j \in 1..Len(s) : i # j => g[i] # g[j]}}

\* C12: the point appended by a flush has the arithmetic mean of the
\* buffered temperatures and the arithmetic mean of the buffered humidities,
\* each rounded to one decimal, and would have the same values had the same
\* readings arrived in any other order.
C12_MeanAnyOrder ==
  \A t \in {"sensor", "main"} :
    (pc[t] = "sv_trunc" /\ SameLength(historical_data)) =>
      LET p == Point(historical_data, Len(historical_data.labels))
      IN  /\ IsRoundedMean(p.temp, temp_readings_buffer)
          /\ IsRoundedMean(p.hum, humidity_readings_buffer)
          /\ \A s \in Reorderings(temp_readings_buffer) :
               Round1(SumSeq(s), Len(s)) = p.temp
          /\ \A s \in Reorderings(humidity_readings_buffer) :
               Round1(SumSeq(s), Len(s)) = p.hum

\* the label reads back, in the year of nowv, as a time not before the cutoff
Qualifies(label, nowv) ==
  /\ ParseLabel(label, nowv) # None
  /\ Val(ParseLabel(label, nowv)) >= nowv - RETENTION_HOURS * 3600

\* the position (from 1) of the first label that qualifies, 0 when none does
FirstKept(labels, nowv) ==
  IF \A i \in 1..Len(labels) : ~Qualifies(labels[i], nowv) THEN 0
  ELSE CHOOSE i \in 1..Len(labels) :
         /\ Qualifies(labels[i], nowv)
         /\ \A j \in 1..(i - 1) : ~Qualifies(labels[j], nowv)

\* the janitor leaves the scan of lines 140-164
ScanEnds == pc["janitor"] = "co_scan" /\ pc'["janitor"] # "co_scan"

\* the janitor leaves line 168
PruneEnds == pc["janitor"] = "co_save" /\ pc'["janitor"] = "sleep"

\* C13: clean_old_data removes from the three sequences exactly the entries
\* before the first label that parses to a time >= cutoff, labels that do
\* not parse being passed over, and keeps the rest in order; when no label
\* qualifies (or the first one does) the store is unchanged and nothing is
\* written to the file.
C13_Prune ==
  [][ /\ ScanEnds =>
           /\ UNCHANGED store
           /\ pc'["janitor"] = "sleep"
                <=> FirstKept(historical_data.labels, now) <= 1
      /\ PruneEnds =>
           LET old == loc["janitor"].pre
               k == FirstKept(old.labels, loc["janitor"].now)
               n == Len(old.labels)
           IN  /\ k > 1
               /\ historical_data' = [labels |-> SubSeq(old.labels, k, n),
                                      temp   |-> SubSeq(old.temp, k, n),
                                      hum    |-> SubSeq(old.hum, k, n)]
               /\ file' = FileContent(historical_data', last_historical_save')
               /\ UNCHANGED last_historical_save ]_vars

\* a prune has dropped an old point and a label that is no date, both in
\* front of the first recent point
C13_Witness ==
  /\ pc["janitor"] = "co_save"
  /\ loc["janitor"].keep_from = 2
  /\ loc["janitor"].pre.labels = << OldLabel, BadLabel, RecentLabel >>
  /\ historical_data.labels = << RecentLabel >>

\* a run of clean_old_data comes to its end
CleanEnds == pc["janitor"] \in {"co_scan", "co_save"} /\ pc'["janitor"] = "sleep"

\* C14: when a run of clean_old_data at time now has completed, no point of
\* the store has a label whose time is before now - 24 hours.
C14_DayBound ==
  [][ CleanEnds =>
        \A i \in 1..Len(historical_data'.labels) :
          ParseLabel(historical_data'.labels[i], now) # None =>
            Val(ParseLabel(historical_data'.labels[i], now))
              >= now - RETENTION_HOURS * 3600 ]_vars

\* a history file as save_historical_data writes it: the three lists, of one
\* length, and a last_save that is null or an ISO time
WellFormed(f) ==
  /\ f # NoFile
  /\ "garbage" \notin DOMAIN Val(f)
  /\ "data" \in DOMAIN Val(f)
  /\ {"labels", "temp", "hum"} \subseteq DOMAIN Val(f).data
  /\ Len(Val(f).data.labels) = Len(Val(f).data.temp)
  /\ Len(Val(f).data.temp) = Len(Val(f).data.hum)
  /\ "last_save" \in DOMAIN Val(f) =>
       \/ Val(f).last_save = None
       \/ FromIsoFormat(Val(Val(f).last_save)) # None

\* C15: load_historical_data returns to its caller whatever the file, and a
\* file that is missing, no JSON, or malformed (a data object without one of
\* labels/temp/hum, lists of unequal length, a last_save that is no time)
\* leaves the store empty: none of its sequences holds an entry.
C15_LoadDegrades ==
  [][ (pc["main"] = "start" /\ ~WellFormed(file)) =>
        /\ pc'["main"] = "serve"
        /\ \A k \in DOMAIN historical_data' : historical_data'[k] = << >> ]_vars

\* the store in memory
InMemory ==
  [historical_data |-> historical_data,
   last_historical_save |-> last_historical_save]

ClearEnds == pc["http"] = "ch_file" /\ pc'["http"] = "idle"

\* C17: when clear_history has completed (it answers "success"), labels,
\* temp and hum are empty, last_historical_save is None and there is no
\* history file, so that load_historical_data gives the empty store;
\* whatever the store was.
C17_ClearThenLoad ==
  [][ (ClearEnds /\ resp'.status = "success") =>
        /\ historical_data' = EmptyHistory
        /\ last_historical_save' = None
        /\ file' = NoFile
        /\ LoadHistoricalData(file') = FreshStore ]_vars

\* clear_history has answered after a point was appended and saved: nothing
\* of it is left
C17_Witness ==
  /\ resp.route = "clear_history"
  /\ resp.status = "success"
  /\ flushed # << >>
  /\ historical_data = EmptyHistory
  /\ file = NoFile

\* save_averaged_data returns after its append
AppendEnds(t) == pc[t] = "sv_reset" /\ pc'[t] # "sv_reset"

\* C18: when save_averaged_data has appended and returned, or
\* clean_old_data has dropped entries and returned, and the file could be
\* written, the file holds the labels, temp and hum of historical_data and
\* the last_historical_save in memory.
C18_PersistedAfterChange ==
  [][ (disk = "ok" /\ (PruneEnds \/ \E t \in {"sensor", "main"} : AppendEnds(t)))
        => file' = FileContent(historical_data', last_historical_save') ]_vars

\* an append has completed where the directory takes the writes: the file
\* holds the new point
C18_Witness ==
  /\ Quiescent
  /\ disk = "ok"
  /\ flushed # << >>
  /\ historical_data.labels # << >>
  /\ file = FileContent(historical_data, last_historical_save)

\* add_to_buffer passes lines 83-88
WindowStep == pc["sensor"] = "ab_start" /\ pc'["sensor"] = "ab_temp"

\* add_to_buffer passes line 95
CheckStep == pc["sensor"] = "ab_check" /\ pc'["sensor"] # "ab_check"

\* a point is appended to the store while the process serves
AppendStep ==
  /\ pc["main"] = "serve"
  /\ Len(historical_data'.labels) > Len(historical_data.labels)

\* C19: a window opens, with buffer_start_time the time of the call, at the
\* first reading appended to an empty buffer; while the process serves, a
\* point is appended to the store only within an add_to_buffer call at which
\* HISTORICAL_INTERVAL seconds or more have passed since buffer_start_time;
\* the flush averages the buffer with the reading of that call in it and
\* leaves the buffer empty and closed; a call at which less time has passed
\* does not flush.
C19_WindowFlush ==
  [][ /\ WindowStep =>
           IF temp_readings_buffer = << >> /\ humidity_readings_buffer = << >>
             THEN buffer_start_time' = Some(now)
             ELSE UNCHANGED buffer_start_time
      /\ CheckStep =>
           (pc'["sensor"] = "sv_compute"
              <=> loc["sensor"].now - Val(buffer_start_time)
                    >= HISTORICAL_INTERVAL)
      /\ AppendStep =>
           /\ pc["sensor"] = "sv_labels"
           /\ loc["sensor"].now - Val(buffer_start_time) >= HISTORICAL_INTERVAL
           /\ temp_readings_buffer[Len(temp_readings_buffer)]
                = loc["sensor"].temperature
           /\ humidity_readings_buffer[Len(humidity_readings_buffer)]
                = loc["sensor"].humidity
           /\ loc["sensor"].avg_temp
                = Round1(SumSeq(temp_readings_buffer),
                         Len(temp_readings_buffer))
           /\ loc["sensor"].avg_hum
                = Round1(SumSeq(humidity_readings_buffer),
                         Len(humidity_readings_buffer))
      /\ AppendEnds("sensor") =>
           /\ temp_readings_buffer' = << >>
           /\ humidity_readings_buffer' = << >>
           /\ buffer_start_time' = None ]_vars

\* the reading taken exactly HISTORICAL_INTERVAL seconds after the window
\* opened has been flushed with it, and the buffer is closed
C19_Witness ==
  /\ pc["sensor"] = "buzzer"
  /\ pc["main"] = "serve"
  /\ flushed # << >>
  /\ flushed[Len(flushed)] = loc["sensor"].now - HISTORICAL_INTERVAL
  /\ temp_readings_buffer = << >>
  /\ buffer_start_time = None

\* C20: cleanup runs at most once in the life of the process, whichever of
\* its triggers fire, so that the forced flush, the switching off of the
\* actuator and the release of the drivers happen at most once.
C20_CleanupOnce == loc["main"].runs <= 1

=============================================================================
